---- MODULE Spec2Model ----
(***************************************************************************)
(* git-author-stats: for every month since 2016 resolve a snapshot, list   *)
(* its files, drop the excluded ones, blame every remaining file on a      *)
(* thread pool, sum the per-file author counts, then normalise the author  *)
(* names and print the table.                                              *)
(*                                                                         *)
(* A Rust String is modelled as the sequence of its characters, each a     *)
(* one-character string; Width gives a character's UTF-8 length, so byte   *)
(* offsets and character indices are kept apart as the code keeps them.    *)
(***************************************************************************)
EXTENDS Integers, Sequences, FiniteSets, TLC

VARIABLES
  now,        \* Local::now(): [year, month]
  opt,        \* Args: [alphabetical, branch]
  repo,       \* the repository git answers from: [refs, commits, broken]
  pc,         \* position of the main thread
  year,       \* loop variables of the date generation
  month,
  dates,      \* Vec<String> of period dates
  di,         \* index of the period being processed
  revision,   \* Option<String> returned by git_revision
  files,      \* eligible files of the current period
  fi,         \* index of the next file to hand to the pool
  worker,     \* per dispatched job: "queued", "running", "sent", "panicked"
  chan,       \* the mpsc channel: messages sent and not yet received
  nrecv,      \* results taken from the channel in this period
  dauth,      \* running AuthorCount of the period
  authors,    \* AuthorPerformance: date -> AuthorCount
  rtodo,      \* reformat: the dates not yet visited
  formatted,  \* reformat: the AuthorPerformance being built
  table,      \* what display_results printed: [cols, rows, cells]
  hist,       \* history: what happened, per period (for stating the claims)
  arg,        \* input of the function under test (pure-function specifications)
  res,        \* its results
  fpc         \* position of the pure-function harness

vars == <<now, opt, repo, pc, year, month, dates, di, revision, files, fi,
          worker, chan, nrecv, dauth, authors, rtodo, formatted, table, hist,
          arg, res, fpc>>

mainVars == <<now, opt, repo, pc, year, month, dates, di, revision, files, fi,
              worker, chan, nrecv, dauth, authors, rtodo, formatted, table, hist>>

fnVars == <<arg, res, fpc>>

-----------------------------------------------------------------------------
(* Characters and strings *)

LowerLetters ==
  <<"a","b","c","d","e","f","g","h","i","j","k","l","m","n","o","p","q","r",
    "s","t","u","v","w","x","y","z","é">>

UpperLetters ==
  <<"A","B","C","D","E","F","G","H","I","J","K","L","M","N","O","P","Q","R",
    "S","T","U","V","W","X","Y","Z","É">>

Digits == <<"0","1","2","3","4","5","6","7","8","9">>

Range(s) == {s[i] : i \in DOMAIN s}

IndexIn(s, c) == CHOOSE i \in DOMAIN s : s[i] = c

\* [a-z] of RE_CAPITAL: ASCII lower-case letters only
AsciiLower == {LowerLetters[i] : i \in 1..26}

\* char::to_lowercase / char::to_uppercase (first character of the mapping)
LowerChar(c) ==
  IF c \in Range(UpperLetters) THEN LowerLetters[IndexIn(UpperLetters, c)] ELSE c

UpperChar(c) ==
  IF c \in Range(LowerLetters) THEN UpperLetters[IndexIn(LowerLetters, c)] ELSE c

\* \w of the regex crate (Unicode word character)
IsWordChar(c) ==
  c \in Range(LowerLetters) \cup Range(UpperLetters) \cup Range(Digits) \cup {"_"}

\* UTF-8 length of a character
Width(c) == IF c \in {"é", "É"} THEN 2 ELSE 1

RECURSIVE ByteLen(_)
ByteLen(s) == IF s = <<>> THEN 0 ELSE Width(Head(s)) + ByteLen(Tail(s))

\* Unicode scalar value: the order of chars, and of UTF-8 strings bytewise
CodePoint(c) ==
  CASE c \in AsciiLower -> 96 + IndexIn(LowerLetters, c)
    [] c \in Range(UpperLetters) \ {"É"} -> 64 + IndexIn(UpperLetters, c)
    [] c \in Range(Digits) -> 47 + IndexIn(Digits, c)
    [] c = " " -> 32
    [] c = "-" -> 45
    [] c = "." -> 46
    [] c = "/" -> 47
    [] c = "_" -> 95
    [] c = "É" -> 201
    [] c = "é" -> 233

\* Ord for String: lexicographic
RECURSIVE StrLess(_, _)
StrLess(a, b) ==
  IF b = <<>> THEN FALSE
  ELSE IF a = <<>> THEN TRUE
  ELSE IF Head(a) = Head(b) THEN StrLess(Tail(a), Tail(b))
  ELSE CodePoint(Head(a)) < CodePoint(Head(b))

StartsWith(s, p) == Len(s) >= Len(p) /\ SubSeq(s, 1, Len(p)) = p

EndsWith(s, p) ==
  Len(s) >= Len(p) /\ SubSeq(s, Len(s) - Len(p) + 1, Len(s)) = p

\* slice::sort on a set of distinct strings
RECURSIVE SortStrings(_)
SortStrings(S) ==
  IF S = {} THEN <<>>
  ELSE LET m == CHOOSE x \in S : \A y \in S \ {x} : StrLess(x, y)
       IN  <<m>> \o SortStrings(S \ {m})

-----------------------------------------------------------------------------
(* reformat: the rewriting of one author name *)

Ok(s) == [ok |-> TRUE, val |-> s]
Panic == [ok |-> FALSE, val |-> <<>>]

\* RE_SPECIAL = [-_\.], replace_all(author, " ")
replace_special(s) ==
  [i \in DOMAIN s |-> IF s[i] \in {"-", "_", "."} THEN " " ELSE s[i]]

\* str::to_lowercase
to_lowercase(s) == [i \in DOMAIN s |-> LowerChar(s[i])]

\* RE_CAPITAL = \b[a-z]; find_iter: the byte offsets of the matches, ascending
RECURSIVE MatchStartsFrom(_, _)
MatchStartsFrom(s, i) ==
  IF i > Len(s) THEN <<>>
  ELSE IF s[i] \in AsciiLower /\ (i = 1 \/ ~IsWordChar(s[i-1]))
       THEN <<ByteLen(SubSeq(s, 1, i - 1))>> \o MatchStartsFrom(s, i + 1)
       ELSE MatchStartsFrom(s, i + 1)

find_capital(s) == MatchStartsFrom(s, 1)

\* author.chars().nth(n): None (here "") past the end
CharsNth(s, n) == IF n + 1 <= Len(s) THEN s[n + 1] ELSE ""

\* the character index k such that the first k characters take b bytes, or -1
BoundaryAt(s, b) ==
  IF \E k \in 0..Len(s) : ByteLen(SubSeq(s, 1, k)) = b
  THEN CHOOSE k \in 0..Len(s) : ByteLen(SubSeq(s, 1, k)) = b
  ELSE -1

\* String::replace_range(b..b+1, c): panics unless b and b+1 are char boundaries
replace_range(s, b, c) ==
  LET k == BoundaryAt(s, b)
  IN  IF k < 0 \/ k >= Len(s) \/ Width(s[k + 1]) /= 1 THEN Panic
      ELSE Ok(SubSeq(s, 1, k) \o <<c>> \o SubSeq(s, k + 2, Len(s)))

\* the loop over the matches (found in a clone), editing author in place
RECURSIVE capitalize(_, _)
capitalize(author, starts) ==
  IF starts = <<>> THEN Ok(author)
  ELSE LET c == CharsNth(author, Head(starts))
       IN  IF c = "" THEN Panic
           ELSE LET r == replace_range(author, Head(starts), UpperChar(c))
                IN  IF r.ok THEN capitalize(r.val, Tail(starts)) ELSE Panic

reformat_author(raw) ==
  LET author == to_lowercase(replace_special(raw))
  IN  capitalize(author, find_capital(author))

-----------------------------------------------------------------------------
(* reason_to_skip *)

\* Option<String>, the string a sequence of characters
None == [some |-> FALSE, val |-> <<>>]
Some(v) == [some |-> TRUE, val |-> v]

\* Option<String> of reason_to_skip, the reason a literal
NoReason == [some |-> FALSE, val |-> ""]
Reason(v) == [some |-> TRUE, val |-> v]

binary_ext_list ==
  << <<"b","i","n">>, <<"d","a","t","a">>, <<"e","l","f">>, <<"g","z">>,
     <<"h","e","x","1","2","8">>, <<"h","e","x","8">>, <<"p","d","f">>,
     <<"p","n","g">>, <<"t","a","r">>, <<"w","c","f","g">>,
     <<"x","l","s","x">> >>

generated_ext_list ==
  << <<"v">>, <<"x","m","l">>, <<"e","d","i","f">>, <<"e","d","f">>,
     <<"r","p","t">>, <<"x","c","i">> >>

\* the components of a path: split at '/', empty components dropped
RECURSIVE Components(_, _)
Components(path, cur) ==
  IF path = <<>> THEN (IF cur = <<>> THEN <<>> ELSE <<cur>>)
  ELSE IF Head(path) = "/"
       THEN (IF cur = <<>> THEN <<>> ELSE <<cur>>) \o Components(Tail(path), <<>>)
       ELSE Components(Tail(path), Append(cur, Head(path)))

\* Path::file_name: the last component ("." components are not components),
\* unless it is ".."
file_name(path) ==
  LET cs == SelectSeq(Components(path, <<>>), LAMBDA c : c /= <<".">>)
  IN  IF cs = <<>> \/ cs[Len(cs)] = <<".", ".">> THEN None
      ELSE Some(cs[Len(cs)])

\* Path::extension: what follows the last '.' of the file name, when the name
\* has one that is not its first character
extension(path) ==
  LET fname == file_name(path)
  IN  IF ~fname.some THEN None
      ELSE LET n == fname.val
               dots == {i \in DOMAIN n : n[i] = "."}
           IN  IF dots = {} THEN None
               ELSE LET last == CHOOSE i \in dots : \A j \in dots : j <= i
                    IN  IF last = 1 THEN None
                        ELSE Some(SubSeq(n, last + 1, Len(n)))

has_binary_ext(path) ==
  LET ext == extension(path) IN ext.some /\ ext.val \in Range(binary_ext_list)

has_generated_ext(path) ==
  LET ext == extension(path) IN ext.some /\ ext.val \in Range(generated_ext_list)

has_bd_tcl_name(path) ==
  LET name == file_name(path)
  IN  name.some /\ EndsWith(name.val, <<".","b","d",".","t","c","l">>)

\* reason_to_skip with the extension rules tried before the prefix rules
reason_to_skip_ext_first(path) ==
  IF has_binary_ext(path) THEN Reason("binary extension    ")
  ELSE IF has_generated_ext(path) THEN Reason("autogenerated       ")
  ELSE IF StartsWith(path, <<"x","i","p","/">>) THEN Reason("mostly imported     ")
  ELSE IF StartsWith(path, <<"c","a","c","h","e","/">>) THEN Reason("generated           ")
  ELSE IF has_bd_tcl_name(path) THEN Reason("mostly autogenerated")
  ELSE NoReason

reason_to_skip(path) ==
  IF StartsWith(path, <<"x","i","p","/">>) THEN Reason("mostly imported     ")
  ELSE IF StartsWith(path, <<"c","a","c","h","e","/">>) THEN Reason("generated           ")
  ELSE IF has_binary_ext(path) THEN Reason("binary extension    ")
  ELSE IF has_generated_ext(path) THEN Reason("autogenerated       ")
  ELSE IF has_bd_tcl_name(path) THEN Reason("mostly autogenerated")
  ELSE NoReason

\* the filter closure of main: keep the files with no reason to skip
eligible(listing) == SelectSeq(listing, LAMBDA f : ~reason_to_skip(f).some)

-----------------------------------------------------------------------------
(* The period dates *)

EpochYear == 2016
MonthsPerYear == 12

RECURSIVE Decimal(_)
Decimal(n) ==
  IF n < 10 THEN <<Digits[n + 1]>> ELSE Append(Decimal(n \div 10), Digits[(n % 10) + 1])

RECURSIVE PadLeft(_, _, _)
PadLeft(s, w, c) == IF Len(s) >= w THEN s ELSE PadLeft(<<c>> \o s, w, c)

\* format!("{year:4}-{month:02}-01")
format_date(y, m) ==
  PadLeft(Decimal(y), 4, " ") \o <<"-">> \o PadLeft(Decimal(m), 2, "0")
    \o <<"-", "0", "1">>

\* the last year and the months of a year the loops run over
last_year(dt) == dt.year

\* the month loop one short
months_of_year_short == 1..(MonthsPerYear - 1)

months_of_year == 1..MonthsPerYear

\* months since the start of the epoch year: January of EpochYear is 1
AbsMonth(y, m) == (y - EpochYear) * MonthsPerYear + m

-----------------------------------------------------------------------------
(* What git answers: the repository *)

\* Bounds of the repositories and clocks explored: the clock shows November or
\* December of a year up to MaxYear, and the commits (one or two, none later
\* than the clock's month) fall in the last MaxHistory + 1 months of that year,
\* so that at most MaxHistory periods have a snapshot with files.
MaxYear == 2016
MaxHistory == 2

JaneDash == <<"j","a","n","e","-","d","o","e">>
JaneUnder == <<"J","a","n","e","_","D","o","e">>
Bob == <<"b","o","b">>
Al == <<"a","l">>
Zoe == <<"z","o","é">>
EB == <<"é"," ","b">>

MainRs == <<"s","r","c","/","m","a","i","n",".","r","s">>
LibRs == <<"l","i","b",".","r","s">>
CacheOutBin == <<"c","a","c","h","e","/","o","u","t",".","b","i","n">>
ThingV == <<"s","r","c","/","t","h","i","n","g",".","v">>
XipMainRs == <<"x","i","p","/","m","a","i","n",".","r","s">>
DocPdf == <<"d","o","c",".","p","d","f">>
TopBdTcl == <<"t","o","p",".","b","d",".","t","c","l">>
CacheTopBdTcl == <<"c","a","c","h","e","/","t","o","p",".","b","d",".","t","c","l">>
DotBin == <<".","b","i","n">>

Dev == <<"d","e","v">>

\* a tree: path -> the authors git blame credits its lines to
Tree1 ==
  (MainRs :> (JaneDash :> 10 @@ Bob :> 1)) @@ (LibRs :> (JaneUnder :> 5 @@ Bob :> 20))
    @@ (CacheOutBin :> (Bob :> 1)) @@ (ThingV :> (Bob :> 7))
    @@ (XipMainRs :> (Al :> 9))

Tree2 ==
  (MainRs :> (JaneDash :> 8 @@ Al :> 3))
    @@ (LibRs :> (JaneUnder :> 5 @@ Al :> 2 @@ Zoe :> 1))
    @@ (DocPdf :> (Bob :> 2)) @@ (TopBdTcl :> (Al :> 4))
    @@ (CacheTopBdTcl :> (Al :> 4))

Tree3 ==
  (CacheOutBin :> (Bob :> 1)) @@ (ThingV :> (Bob :> 7)) @@ (DotBin :> (EB :> 1))

\* the months the clock may show
ClockMonths == {MonthsPerYear - 1, MonthsPerYear}

NPeriods(dt) == AbsMonth(dt.year, MonthsPerYear)

CommitMonths(dt) ==
  {m \in (NPeriods(dt) - MaxHistory)..NPeriods(dt) : m <= AbsMonth(dt.year, dt.month)}

Histories(dt) ==
  {<<>>}
    \cup {<<[when |-> m, tree |-> t]>> : m \in CommitMonths(dt), t \in {Tree1, Tree3}}
    \cup UNION {{<<[when |-> m1, tree |-> Tree1], [when |-> m2, tree |-> Tree2]>> :
                    m2 \in {m \in CommitMonths(dt) : m > m1}} : m1 \in CommitMonths(dt)}

Repos(dt) ==
  {r \in [branches : {{}, {Dev}}, commits : Histories(dt), broken : {{}, {LibRs}}] :
     r.commits = <<>> => r.branches = {}}

\* the id of the i-th commit
Rev(i) == <<"c">> \o Decimal(i)

RECURSIVE ParseNat(_)
ParseNat(s) ==
  IF s = <<>> THEN 0
  ELSE ParseNat(SubSeq(s, 1, Len(s) - 1)) * 10 + (IndexIn(Digits, s[Len(s)]) - 1)

\* git's reading of --before=YYYY-MM-01, in months
date_month(date) ==
  AbsMonth(ParseNat(SelectSeq(SubSeq(date, 1, 4), LAMBDA c : c /= " ")),
           ParseNat(SubSeq(date, 6, 7)))

\* git log -n1 --format=format:%H --before=<date> [<branch>]: fails when the
\* branch argument names nothing or HEAD has no commit; prints nothing when no
\* commit is old enough
git_log_ok(r, branch) ==
  r.commits /= <<>> /\ (branch.some => branch.val \in r.branches)

git_revision(r, branch, date) ==
  IF ~git_log_ok(r, branch) THEN None
  ELSE LET old == {i \in DOMAIN r.commits : r.commits[i].when < date_month(date)}
       IN  IF old = {} THEN Some(<<>>)
           ELSE Some(Rev(CHOOSE i \in old : \A j \in old : j <= i))

RevIndex(r, rev) ==
  IF \E i \in DOMAIN r.commits : Rev(i) = rev
  THEN CHOOSE i \in DOMAIN r.commits : Rev(i) = rev
  ELSE 0

\* git ls-tree -r <revision> --name-only: the paths in name order; the exit
\* status is not looked at, so an unknown revision lists nothing
git_files(r, rev) ==
  IF RevIndex(r, rev) = 0 THEN <<>>
  ELSE SortStrings(DOMAIN r.commits[RevIndex(r, rev)].tree)

EmptyCount == [a \in {} |-> 0]

\* git blame --line-porcelain <revision> <file>, its "author " lines counted;
\* when blame exits with an error its output is empty and so is the count
git_author_line_count(r, rev, path) ==
  IF path \in r.broken \/ RevIndex(r, rev) = 0 THEN EmptyCount
  ELSE r.commits[RevIndex(r, rev)].tree[path]

-----------------------------------------------------------------------------
(* main *)

WorkerLimit == 16

pool_size(fs) == IF Len(fs) < WorkerLimit THEN Len(fs) ELSE WorkerLimit

\* take() of one result fewer than there are files
take_count_short(fs) == Len(fs) - 1

\* rx.iter().take(files.len())
take_count(fs) == Len(fs)

Count(acnt, a) == IF a \in DOMAIN acnt THEN acnt[a] ELSE 0

\* the count assigned instead of added
add_count_assign(old, count) == count

\* *dauth.entry_ref(author).or_insert(0) += count
add_count(old, count) == old + count

merge(total, fauth) ==
  [a \in DOMAIN total \cup DOMAIN fauth |->
     IF a \in DOMAIN fauth THEN add_count(Count(total, a), fauth[a]) ELSE total[a]]

\* HashMap::insert
insert(map, key, value) ==
  [k \in DOMAIN map \cup {key} |-> IF k = key THEN value ELSE map[k]]

NoHist == [notfound |-> {}, skipped |-> {}, sent |-> <<>>, got |-> <<>>,
           stored |-> <<>>]

Idle == <<>>

Init ==
  /\ now \in [year : EpochYear..MaxYear, month : ClockMonths]
  /\ opt \in [alphabetical : BOOLEAN, branch : {None, Some(Dev)}]
  /\ repo \in Repos(now)
  /\ pc = "dates"
  /\ year = EpochYear
  /\ month = 1
  /\ dates = <<>>
  /\ di = 1
  /\ revision = <<>>
  /\ files = <<>>
  /\ fi = 1
  /\ worker = <<>>
  /\ chan = <<>>
  /\ nrecv = 0
  /\ dauth = EmptyCount
  /\ authors = <<>>
  /\ rtodo = {}
  /\ formatted = <<>>
  /\ table = Idle
  /\ hist = NoHist
  /\ arg = Idle
  /\ res = Idle
  /\ fpc = "off"

\* one iteration of the inner loop: dates.push(format!(...))
PushDate ==
  /\ pc = "dates"
  /\ year <= last_year(now)
  /\ dates' = Append(dates, format_date(year, month))
  /\ IF month + 1 \in months_of_year
     THEN month' = month + 1 /\ year' = year
     ELSE month' = 1 /\ year' = year + 1
  /\ UNCHANGED <<now, opt, repo, pc, di, revision, files, fi, worker, chan,
                 nrecv, dauth, authors, rtodo, formatted, table, hist, fnVars>>

DatesDone ==
  /\ pc = "dates"
  /\ year > last_year(now)
  /\ pc' = "period"
  /\ UNCHANGED <<now, opt, repo, year, month, dates, di, revision, files, fi,
                 worker, chan, nrecv, dauth, authors, rtodo, formatted, table,
                 hist, fnVars>>

\* git_revision(...).expect(...) on None: the main thread panics
ResolveFail ==
  /\ pc = "period"
  /\ di <= Len(dates)
  /\ ~git_revision(repo, opt.branch, dates[di]).some
  /\ pc' = "aborted"
  /\ hist' = [hist EXCEPT !.notfound = @ \cup {di}]
  /\ UNCHANGED <<now, opt, repo, year, month, dates, di, revision, files, fi,
                 worker, chan, nrecv, dauth, authors, rtodo, formatted, table,
                 fnVars>>

\* if files.len() == 0 { continue; }
SkipPeriod ==
  /\ pc = "period"
  /\ di <= Len(dates)
  /\ LET rev == git_revision(repo, opt.branch, dates[di])
     IN  /\ rev.some
         /\ eligible(git_files(repo, rev.val)) = <<>>
         /\ revision' = rev.val
  /\ files' = <<>>
  /\ di' = di + 1
  /\ hist' = [hist EXCEPT !.skipped = @ \cup {di}]
  /\ UNCHANGED <<now, opt, repo, pc, year, month, dates, fi, worker, chan,
                 nrecv, dauth, authors, rtodo, formatted, table, fnVars>>

\* the snapshot has eligible files: a new pool and a new channel
BeginPeriod ==
  /\ pc = "period"
  /\ di <= Len(dates)
  /\ LET rev == git_revision(repo, opt.branch, dates[di])
     IN  /\ rev.some
         /\ eligible(git_files(repo, rev.val)) /= <<>>
         /\ revision' = rev.val
         /\ files' = eligible(git_files(repo, rev.val))
  /\ fi' = 1
  /\ worker' = <<>>
  /\ chan' = <<>>
  /\ nrecv' = 0
  /\ dauth' = EmptyCount
  /\ hist' = [hist EXCEPT !.sent = <<>>, !.got = <<>>]
  /\ pc' = "dispatch"
  /\ UNCHANGED <<now, opt, repo, year, month, dates, di, authors, rtodo,
                 formatted, table, fnVars>>

\* pool.execute(...) for the next file
Execute ==
  /\ pc = "dispatch"
  /\ fi <= Len(files)
  /\ worker' = Append(worker, "queued")
  /\ fi' = fi + 1
  /\ pc' = IF fi = Len(files) THEN "collect" ELSE "dispatch"
  /\ UNCHANGED <<now, opt, repo, year, month, dates, di, revision, files, chan,
                 nrecv, dauth, authors, rtodo, formatted, table, hist, fnVars>>

Running == {j \in DOMAIN worker : worker[j] = "running"}

\* a pool thread takes the oldest queued job
Start(i) ==
  /\ worker[i] = "queued"
  /\ \A j \in 1..(i - 1) : worker[j] /= "queued"
  /\ Cardinality(Running) < pool_size(files)
  /\ worker' = [worker EXCEPT ![i] = "running"]
  /\ UNCHANGED <<now, opt, repo, pc, year, month, dates, di, revision, files,
                 fi, chan, nrecv, dauth, authors, rtodo, formatted, table, hist,
                 fnVars>>

\* ttx.send(git_author_line_count(...)).unwrap(); the message's "from" is history
Finish(i) ==
  /\ worker[i] = "running"
  /\ LET fauth == git_author_line_count(repo, revision, files[i])
     IN  /\ chan' = Append(chan, [from |-> i, counts |-> fauth])
         /\ hist' = [hist EXCEPT !.sent = @ @@ (i :> fauth)]
  /\ worker' = [worker EXCEPT ![i] = "sent"]
  /\ UNCHANGED <<now, opt, repo, pc, year, month, dates, di, revision, files,
                 fi, nrecv, dauth, authors, rtodo, formatted, table, fnVars>>

\* .expect("git blame failed to start"): the job panics and sends nothing; the
\* pool replaces the thread
SpawnFail(i) ==
  /\ worker[i] = "running"
  /\ worker' = [worker EXCEPT ![i] = "panicked"]
  /\ UNCHANGED <<now, opt, repo, pc, year, month, dates, di, revision, files,
                 fi, chan, nrecv, dauth, authors, rtodo, formatted, table, hist,
                 fnVars>>

\* one item of rx.iter().take(n): blocks while the channel is empty; main keeps
\* tx, so the iterator never ends by disconnection
Recv ==
  /\ pc = "collect"
  /\ nrecv < take_count(files)
  /\ chan /= <<>>
  /\ dauth' = merge(dauth, Head(chan).counts)
  /\ chan' = Tail(chan)
  /\ nrecv' = nrecv + 1
  /\ hist' = [hist EXCEPT !.got = Append(@, Head(chan).from)]
  /\ UNCHANGED <<now, opt, repo, pc, year, month, dates, di, revision, files,
                 fi, worker, authors, rtodo, formatted, table, fnVars>>

\* authors.insert(date_str, dauth)
Insert ==
  /\ pc = "collect"
  /\ nrecv >= take_count(files)
  /\ authors' = insert(authors, dates[di], dauth)
  /\ hist' = [hist EXCEPT !.stored =
                insert(@, dates[di], [files |-> files, sent |-> hist.sent,
                                      got |-> hist.got])]
  /\ di' = di + 1
  /\ pc' = "period"
  /\ UNCHANGED <<now, opt, repo, year, month, dates, revision, files, fi,
                 worker, chan, nrecv, dauth, rtodo, formatted, table, fnVars>>

-----------------------------------------------------------------------------
(* display_results: reformat, then the table *)

\* all periods are done: display_results(&opt, &authors) starts reformat
PeriodsDone ==
  /\ pc = "period"
  /\ di > Len(dates)
  /\ pc' = "reformat"
  /\ rtodo' = DOMAIN authors
  /\ formatted' = <<>>
  /\ UNCHANGED <<now, opt, repo, year, month, dates, di, revision, files, fi,
                 worker, chan, nrecv, dauth, authors, table, hist, fnVars>>

\* the orders a hash map may hand out its keys in
Orders(S) == {o \in [1..Cardinality(S) -> S] : Range(o) = S}

\* the count assigned instead of added
add_formatted_assign(old, cnt_in) == cnt_in

\* *acnt_out.entry_ref(&author).or_insert(0) += cnt_in
add_formatted(old, cnt_in) == old + cnt_in

\* for author in acnt_in.keys(), in the given order; a panic while rewriting a
\* name ends the loop
RECURSIVE reformat_names(_, _, _)
reformat_names(acnt_in, order, acnt_out) ==
  IF order = <<>> THEN [ok |-> TRUE, val |-> acnt_out]
  ELSE LET r == reformat_author(Head(order))
       IN  IF r.ok
           THEN reformat_names(acnt_in, Tail(order),
                  insert(acnt_out, r.val,
                         add_formatted(Count(acnt_out, r.val), acnt_in[Head(order)])))
           ELSE [ok |-> FALSE, val |-> acnt_out]

\* one iteration of perf.iter().for_each: the next date, in the map's order,
\* formatted.entry_ref(date).or_insert(AuthorCount::new()), and the loop over
\* its authors; a panic there ends the main thread
ReformatDate ==
  /\ pc = "reformat"
  /\ \E d \in rtodo : \E order \in Orders(DOMAIN authors[d]) :
       LET acnt_out == IF d \in DOMAIN formatted THEN formatted[d] ELSE EmptyCount
           r == reformat_names(authors[d], order, acnt_out)
       IN  IF r.ok
           THEN /\ formatted' = insert(formatted, d, r.val)
                /\ rtodo' = rtodo \ {d}
                /\ pc' = pc
           ELSE /\ pc' = "aborted"
                /\ UNCHANGED <<formatted, rtodo>>
  /\ UNCHANGED <<now, opt, repo, year, month, dates, di, revision, files, fi,
                 worker, chan, nrecv, dauth, authors, table, hist, fnVars>>

AllAuthors(perf) == UNION {DOMAIN perf[d] : d \in DOMAIN perf}

\* the rest of display_results: dates.sort(); authors.sort(); authors.dedup();
\* one row per author, one cell per date, 0 where the author is absent.
\* The options are not read.
display_rows(o, perf) == SortStrings(AllAuthors(perf))

display_cols(perf) == SortStrings(DOMAIN perf)

display_table(o, perf) ==
  LET cols == display_cols(perf)
      rows == display_rows(o, perf)
  IN  [cols |-> cols,
       rows |-> [r \in DOMAIN rows |->
                   [author |-> rows[r],
                    cells |-> [c \in DOMAIN cols |-> Count(perf[cols[c]], rows[r])]]]]

Render ==
  /\ pc = "reformat"
  /\ rtodo = {}
  /\ table' = display_table(opt, formatted)
  /\ pc' = "done"
  /\ UNCHANGED <<now, opt, repo, year, month, dates, di, revision, files, fi,
                 worker, chan, nrecv, dauth, authors, rtodo, formatted, hist,
                 fnVars>>

Next ==
  \/ PushDate
  \/ DatesDone
  \/ ResolveFail
  \/ SkipPeriod
  \/ BeginPeriod
  \/ Execute
  \/ \E i \in DOMAIN worker : Start(i)
  \/ \E i \in DOMAIN worker : Finish(i)
  \/ \E i \in DOMAIN worker : SpawnFail(i)
  \/ Recv
  \/ Insert
  \/ PeriodsDone
  \/ ReformatDate
  \/ Render

Spec == Init /\ [][Next]_vars

-----------------------------------------------------------------------------
(* The name rewriting on its own: any raw author string, rewritten, and the   *)
(* result rewritten again                                                     *)

MaxNameLen == 4

NameChars == {"a", "B", "c", "-", "_", ".", " ", "é"}

RECURSIVE StringsUpTo(_)
StringsUpTo(n) ==
  IF n = 0 THEN {<<>>}
  ELSE LET shorter == StringsUpTo(n - 1)
       IN  shorter \cup {Append(t, c) : t \in {u \in shorter : Len(u) = n - 1},
                                         c \in NameChars}

MainOff ==
  /\ now = [year |-> EpochYear, month |-> MonthsPerYear]
  /\ opt = [alphabetical |-> FALSE, branch |-> None]
  /\ repo = [branches |-> {}, commits |-> <<>>, broken |-> {}]
  /\ pc = "off"
  /\ year = EpochYear
  /\ month = 1
  /\ dates = <<>>
  /\ di = 1
  /\ revision = <<>>
  /\ files = <<>>
  /\ fi = 1
  /\ worker = <<>>
  /\ chan = <<>>
  /\ nrecv = 0
  /\ dauth = EmptyCount
  /\ authors = <<>>
  /\ rtodo = {}
  /\ formatted = <<>>
  /\ table = Idle
  /\ hist = NoHist

InitNorm ==
  /\ MainOff
  /\ arg \in StringsUpTo(MaxNameLen)
  /\ res = <<>>
  /\ fpc = "raw"

NormOnce ==
  /\ fpc = "raw"
  /\ res' = <<reformat_author(arg)>>
  /\ fpc' = "once"
  /\ UNCHANGED <<mainVars, arg>>

NormTwice ==
  /\ fpc = "once"
  /\ res[1].ok
  /\ res' = Append(res, reformat_author(res[1].val))
  /\ fpc' = "twice"
  /\ UNCHANGED <<mainVars, arg>>

NextNorm == NormOnce \/ NormTwice

SpecNorm == InitNorm /\ [][NextNorm]_vars

-----------------------------------------------------------------------------
(* Properties *)

RECURSIVE SumOver(_, _)
SumOver(S, f) ==
  IF S = {} THEN 0
  ELSE LET x == CHOOSE y \in S : TRUE IN f[x] + SumOver(S \ {x}, f)

\* C1: a period's total is stored only after one result from each of the N
\* dispatched workers has been received: for every stored period the results
\* received are exactly one per eligible file, N >= 1 of them, whatever the
\* order the workers completed in.
C1_StoredAfterAllReported ==
  \A d \in DOMAIN authors :
    LET s == hist.stored[d]
        n == Len(s.files)
    IN  /\ n >= 1
        /\ Len(s.got) = n
        /\ Range(s.got) = 1..n
        /\ DOMAIN s.sent = 1..n

\* a period of two files whose second worker reported first has been stored
C1_Witness ==
  \E d \in DOMAIN authors :
    Len(hist.stored[d].files) = 2 /\ hist.stored[d].got = <<2, 1>>

\* C2: the stored total of a period gives every author the sum of that
\* author's counts over the results the period's workers produced, and names
\* no other author; the sum does not depend on the order of reception.
C2_TotalIsSumOverFiles ==
  \A d \in DOMAIN authors :
    LET s == hist.stored[d]
        per(a) == [i \in DOMAIN s.files |-> Count(s.sent[i], a)]
    IN  /\ DOMAIN authors[d] = UNION {DOMAIN s.sent[i] : i \in DOMAIN s.files}
        /\ \A a \in DOMAIN authors[d] :
             authors[d][a] = SumOver(DOMAIN s.files, per(a))

\* two files crediting the same author, merged in reversed completion order
C2_Witness ==
  \E d \in DOMAIN authors :
    LET s == hist.stored[d]
    IN  /\ s.got = <<2, 1>>
        /\ \E a \in DOMAIN authors[d] :
             /\ a \in DOMAIN s.sent[1] /\ a \in DOMAIN s.sent[2]
             /\ authors[d][a] = s.sent[1][a] + s.sent[2][a]

\* the Period Aggregator waits for a result that will never come
Blocked ==
  /\ pc = "collect"
  /\ nrecv < take_count(files)
  /\ chan = <<>>
  /\ \A i \in DOMAIN worker : worker[i] \in {"sent", "panicked"}

\* C3: when a worker fails to produce a result the run neither aborts nor
\* blocks forever waiting for it.
C3_WorkerFailureIsolated ==
  (\E i \in DOMAIN worker : worker[i] = "panicked") =>
    (pc /= "aborted" /\ ~Blocked)

\* C4: a period for which the Snapshot Resolver returned None is skipped: the
\* run is not aborted and the period gets no entry.
C4_NotFoundSkipsPeriod ==
  \A p \in hist.notfound : pc /= "aborted" /\ dates[p] \notin DOMAIN authors

\* C5 as stated: the periods are the months from January 2016 through the
\* current month, and none later than the current month is ever generated.
C5_PeriodsThroughCurrentMonth ==
  /\ \A i \in DOMAIN dates : date_month(dates[i]) <= AbsMonth(now.year, now.month)
  /\ pc /= "dates" => Len(dates) = AbsMonth(now.year, now.month)

\* C5 amended: the periods are the months from January 2016 through December
\* of the current year, ascending and without duplicates; no period later than
\* December of the current year is generated or given an entry in the result.
C5_PeriodsThroughDecember ==
  /\ \A i \in DOMAIN dates : date_month(dates[i]) = i /\ Len(dates[i]) = 10
  /\ \A i \in DOMAIN dates : i > 1 => StrLess(dates[i - 1], dates[i])
  /\ Len(dates) <= AbsMonth(now.year, MonthsPerYear)
  /\ pc /= "dates" => Len(dates) = AbsMonth(now.year, MonthsPerYear)
  /\ DOMAIN authors \subseteq Range(dates)

\* the report has a column for a month after the current one
C5_Witness ==
  /\ pc = "done"
  /\ \E c \in DOMAIN table.cols :
       date_month(table.cols[c]) > AbsMonth(now.year, now.month)

Total(perf, a) == SumOver(DOMAIN perf, [d \in DOMAIN perf |-> Count(perf[d], a)])

\* by total descending, ties alphabetically
RECURSIVE ByVolume(_, _)
ByVolume(perf, S) ==
  IF S = {} THEN <<>>
  ELSE LET m == CHOOSE x \in S : \A y \in S \ {x} :
                  \/ Total(perf, x) > Total(perf, y)
                  \/ Total(perf, x) = Total(perf, y) /\ StrLess(x, y)
       IN  <<m>> \o ByVolume(perf, S \ {m})

RowAuthors == [r \in DOMAIN table.rows |-> table.rows[r].author]

\* C6: the rows are the normalized names, alphabetical when alphabetical
\* sorting is selected and otherwise by total count descending with ties
\* alphabetical; the columns are the periods in chronological order; the cell
\* of an author absent from a period is zero.
C6_RowsByVolumeUnlessAlphabetical ==
  pc = "done" =>
    /\ RowAuthors = IF opt.alphabetical
                    THEN SortStrings(AllAuthors(formatted))
                    ELSE ByVolume(formatted, AllAuthors(formatted))
    /\ Range(table.cols) = DOMAIN formatted
    /\ \A c1 \in DOMAIN table.cols : \A c2 \in DOMAIN table.cols :
         c1 < c2 => date_month(table.cols[c1]) < date_month(table.cols[c2])
    /\ \A r \in DOMAIN table.rows : \A c \in DOMAIN table.cols :
         table.rows[r].cells[c] = Count(formatted[table.cols[c]], table.rows[r].author)

\* the raw names of a period that are rewritten to a given name
RawOf(acnt, name) == {raw \in DOMAIN acnt : reformat_author(raw) = Ok(name)}

\* C9: in the report every period of the result is a column of its own, and
\* the cell of a period and a canonical name is the sum of the period's raw
\* counts over the raw names rewritten to that name, in whatever order
\* reformat visited the periods and the names.
C9_CellIsSumOverRawNames ==
  pc = "done" =>
    /\ Range(table.cols) = DOMAIN authors
    /\ Len(table.cols) = Cardinality(DOMAIN authors)
    /\ \A d \in DOMAIN authors : \A raw \in DOMAIN authors[d] :
         \E r \in DOMAIN table.rows : reformat_author(raw) = Ok(table.rows[r].author)
    /\ \A r \in DOMAIN table.rows : \A c \in DOMAIN table.cols :
         LET acnt == authors[table.cols[c]]
         IN  table.rows[r].cells[c] = SumOver(RawOf(acnt, table.rows[r].author), acnt)

JaneDoe == <<"J","a","n","e"," ","D","o","e">>

\* "jane-doe" with 10 lines and "Jane_Doe" with 5 in one period: "Jane Doe" 15
C9_Witness ==
  /\ pc = "done"
  /\ \E r \in DOMAIN table.rows : \E c \in DOMAIN table.cols :
       /\ table.rows[r].author = JaneDoe
       /\ table.rows[r].cells[c] = 15
       /\ authors[table.cols[c]][JaneDash] = 10
       /\ authors[table.cols[c]][JaneUnder] = 5

\* the classification in the order the specification gives its rules
classify(path) ==
  CASE StartsWith(path, <<"c","a","c","h","e","/">>) -> Reason("generated           ")
    [] OTHER ->
  CASE StartsWith(path, <<"x","i","p","/">>) -> Reason("mostly imported     ")
    [] OTHER ->
  CASE has_binary_ext(path) -> Reason("binary extension    ")
    [] OTHER ->
  CASE has_generated_ext(path) -> Reason("autogenerated       ")
    [] OTHER ->
  CASE has_bd_tcl_name(path) -> Reason("mostly autogenerated")
    [] OTHER -> NoReason

ListedPaths == UNION {DOMAIN repo.commits[c].tree : c \in DOMAIN repo.commits}

\* C10: reason_to_skip gives every listed path the reason of the first rule
\* that matches, in the order generated-output prefix, vendored prefix, binary
\* extension, generated-source extension, generated-artifact suffix; the three
\* example paths are classified as stated; and the jobs handed to the pool are
\* exactly the listed paths with no reason.
C10_FirstMatchAndOnlyEligibleDispatched ==
  /\ \A p \in ListedPaths : reason_to_skip(p) = classify(p)
  /\ reason_to_skip(CacheOutBin) = Reason("generated           ")
  /\ reason_to_skip(ThingV) = Reason("autogenerated       ")
  /\ reason_to_skip(MainRs) = NoReason
  /\ \A i \in DOMAIN worker : classify(files[i]) = NoReason
  /\ pc \in {"dispatch", "collect"} =>
       Range(files) = {p \in Range(git_files(repo, revision)) : classify(p) = NoReason}

\* a worker runs on "src/main.rs" in a snapshot that also lists
\* "cache/out.bin" and "src/thing.v", for which no job exists
C10_Witness ==
  /\ {CacheOutBin, ThingV} \subseteq Range(git_files(repo, revision))
  /\ \E i \in DOMAIN worker : files[i] = MainRs /\ worker[i] = "running"
  /\ Len(worker) = Len(files)
  /\ \A i \in DOMAIN worker : files[i] \notin {CacheOutBin, ThingV}

-----------------------------------------------------------------------------
(* The name rewriting as the specification words it *)

Separators == {"-", "_", "."}

\* every maximal run of separators becomes one space
RECURSIVE collapse_runs(_)
collapse_runs(s) ==
  IF s = <<>> THEN <<>>
  ELSE IF Head(s) \in Separators
       THEN IF Len(s) > 1 /\ s[2] \in Separators THEN collapse_runs(Tail(s))
            ELSE <<" ">> \o collapse_runs(Tail(s))
       ELSE <<Head(s)>> \o collapse_runs(Tail(s))

\* the first letter of each whitespace-delimited word in upper case
title_case(s) ==
  [i \in DOMAIN s |-> IF i = 1 \/ s[i - 1] = " " THEN UpperChar(s[i]) ELSE s[i]]

normalize(raw) == title_case(to_lowercase(collapse_runs(raw)))

\* C7: the rewritten name is the raw name with every run of separators
\* replaced by one space, lower-cased, and the first letter of each word
\* upper-cased.
C7_NormalizeAsSpecified ==
  fpc /= "raw" => res[1] = Ok(normalize(arg))

\* C8: the rewriting is defined for every raw string, and rewriting its
\* result again changes nothing.
C8_TotalAndIdempotent ==
  /\ fpc /= "raw" => res[1].ok
  /\ fpc = "twice" => res[2] = res[1]

====
